---- MODULE Spec2Model ----
(***************************************************************************)
(* Model of rkcommon::containers::FlatMap<KEY, VALUE>: a map stored as a   *)
(* std::vector of (key, value) pairs, searched linearly.                   *)
(*                                                                         *)
(* Positions are 1-based: begin() is 1 and end() is Len(values) + 1.       *)
(* size_t indices of at_index are 0-based, as in the source.               *)
(***************************************************************************)
EXTENDS Integers, Sequences, FiniteSets, TLC

\* ---------------------------------------------------------------- bounds
MaxLen == 3

MaxCap == MaxLen + 1

\* the instantiation: KEY values, VALUE values, and VALUE()
Keys == {"a", "b", "c"}

Values == {0, 1}

DefaultValue == 0

NoValue == -1

NoItem == [first |-> "none", second |-> NoValue]

VARIABLES
  values,        \* storage_t values
  capacity,      \* values.capacity()
  lastOp,        \* the member function called last
  lastKey,       \* its key argument
  lastVal,       \* the value assigned through the returned reference
  lastIdx,       \* its index argument
  lastErr,       \* the exception it threw, or "none"
  retValue,      \* the VALUE it returned
  retItem,       \* the item_t it returned
  pre,           \* values before the call
  preOp,         \* the member function called before the last one
  keyMutated,    \* a key was overwritten through at_index / an iterator
  insertedKeys,  \* keys passed to operator[] so far
  erasedKeys,    \* keys passed to erase so far
  acct           \* every call so far was a first insertion or a first erase of an inserted key

vars == <<values, capacity, lastOp, lastKey, lastVal, lastIdx, lastErr,
          retValue, retItem, pre, preOp, keyMutated, insertedKeys,
          erasedKeys, acct>>

\* ------------------------------------------------------- pure functions

make_pair(key, value) == [first |-> key, second |-> value]

end(vals) == Len(vals) + 1

RECURSIVE find_if(_, _, _)
find_if(vals, key, i) ==
  IF i > Len(vals) THEN end(vals)
  ELSE IF vals[i].first = key THEN i
  ELSE find_if(vals, key, i + 1)

lookup(vals, key) == find_if(vals, key, 1)

size(vals) == Len(vals)

\* size_t empty() const: the bool of vector::empty() converted to size_t
empty(vals) == IF Len(vals) = 0 THEN 1 ELSE 0

contains(vals, key) == lookup(vals, key) # end(vals)

\* at() that hands back a default value instead of throwing
at_default(vals, key) ==
  LET itr == lookup(vals, key) IN
  IF itr = end(vals)
    THEN [err |-> "none", ref |-> 0, value |-> DefaultValue]
    ELSE [err |-> "none", ref |-> itr, value |-> vals[itr].second]

at(vals, key) ==
  LET itr == lookup(vals, key) IN
  IF itr = end(vals)
    THEN [err |-> "out_of_range", ref |-> 0, value |-> NoValue]
    ELSE [err |-> "none", ref |-> itr, value |-> vals[itr].second]

\* operator[] that appends without looking the key up
OpIndex_always_append(vals, key) ==
  [values |-> Append(vals, make_pair(key, DefaultValue)),
   ref |-> Len(vals) + 1]

\* operator[] that returns values.back().second in both branches
OpIndex_back(vals, key) ==
  LET itr == lookup(vals, key) IN
  IF itr = end(vals)
    THEN [values |-> Append(vals, make_pair(key, DefaultValue)),
          ref |-> Len(vals) + 1]
    ELSE [values |-> vals, ref |-> Len(vals)]

\* operator[] that inserts the new pair at begin()
OpIndex_push_front(vals, key) ==
  LET itr == lookup(vals, key) IN
  IF itr = end(vals)
    THEN [values |-> <<make_pair(key, DefaultValue)>> \o vals, ref |-> 1]
    ELSE [values |-> vals, ref |-> itr]

OpIndex(vals, key) ==
  LET itr == lookup(vals, key) IN
  IF itr = end(vals)
    THEN [values |-> Append(vals, make_pair(key, DefaultValue)),
          ref |-> Len(vals) + 1]
    ELSE [values |-> vals, ref |-> itr]

\* at_index() whose bounds check is index > size()
at_index_off_by_one(vals, index) ==
  IF index > Len(vals)
    THEN [err |-> "out_of_range", ref |-> 0, item |-> NoItem]
  ELSE IF index = Len(vals)
    THEN [err |-> "none", ref |-> 0, item |-> NoItem]
    ELSE [err |-> "none", ref |-> index + 1, item |-> vals[index + 1]]

at_index(vals, index) ==
  IF index >= Len(vals)
    THEN [err |-> "out_of_range", ref |-> 0, item |-> NoItem]
    ELSE [err |-> "none", ref |-> index + 1, item |-> vals[index + 1]]

RECURSIVE partition_from(_, _, _, _, _)
partition_from(vals, key, i, yes, no) ==
  IF i > Len(vals) THEN [seq |-> yes \o no, itr |-> Len(yes) + 1]
  ELSE IF vals[i].first # key
    THEN partition_from(vals, key, i + 1, Append(yes, vals[i]), no)
    ELSE partition_from(vals, key, i + 1, yes, Append(no, vals[i]))

stable_partition(vals, key) == partition_from(vals, key, 1, <<>>, <<>>)

resize(vals, n) ==
  IF n <= Len(vals) THEN SubSeq(vals, 1, n)
  ELSE vals \o [i \in 1..(n - Len(vals)) |-> make_pair("none", DefaultValue)]

\* erase() that overwrites the first match with the last pair and pops
erase_swap_pop(vals, key) ==
  LET itr == lookup(vals, key) IN
  IF itr = end(vals) THEN vals
  ELSE SubSeq([vals EXCEPT ![itr] = vals[Len(vals)]], 1, Len(vals) - 1)

\* erase() that partitions but forgets to resize
erase_no_resize(vals, key) == stable_partition(vals, key).seq

\* erase() whose predicate is inverted
erase_inverted(vals, key) ==
  LET n == Cardinality({i \in DOMAIN vals : vals[i].first = key})
  IN SubSeq(stable_partition(vals, key).seq, Len(vals) - n + 1, Len(vals))

\* erase() that removes only the pair lookup() finds
erase_first_only(vals, key) ==
  LET itr == lookup(vals, key) IN
  IF itr = end(vals) THEN vals
  ELSE SubSeq(vals, 1, itr - 1) \o SubSeq(vals, itr + 1, Len(vals))

erase(vals, key) ==
  LET p == stable_partition(vals, key) IN resize(p.seq, p.itr - 1)

\* clear() that drops only the last pair
clear_pop_back(vals) == SubSeq(vals, 1, Len(vals) - 1)

clear(vals) == SubSeq(vals, 1, 0)

reserve(cap, n) == IF n > cap THEN n ELSE cap

\* capacity after push_back on a vector of length len: unchanged when there
\* is room, otherwise some larger capacity the library picks
push_back_capacity(cap, len) ==
  IF len < cap THEN {cap} ELSE (len + 1)..MaxCap

\* write through a reference to values[ref].second
assign_second(vals, ref, v) == [vals EXCEPT ![ref].second = v]

\* write through a reference to values[ref].first
assign_first(vals, ref, k) == [vals EXCEPT ![ref].first = k]

\* ------------------------------------------------------------ the calls

NoIndex == -1

Indices == 0..MaxLen

Capacities == 0..MaxCap

Init ==
  /\ values = <<>>
  /\ capacity = 0
  /\ lastOp = "init"
  /\ lastKey = "none"
  /\ lastVal = NoValue
  /\ lastIdx = NoIndex
  /\ lastErr = "none"
  /\ retValue = NoValue
  /\ retItem = NoItem
  /\ pre = <<>>
  /\ preOp = "other"
  /\ keyMutated = FALSE
  /\ insertedKeys = {}
  /\ erasedKeys = {}
  /\ acct = TRUE

\* what every call records about itself
Called(op, key, val, idx, err, rv, ri) ==
  /\ lastOp' = op
  /\ lastKey' = key
  /\ lastVal' = val
  /\ lastIdx' = idx
  /\ lastErr' = err
  /\ retValue' = rv
  /\ retItem' = ri
  /\ pre' = values
  /\ preOp' = IF lastOp = "clear" THEN "clear" ELSE "other"

AcctKeep == UNCHANGED <<insertedKeys, erasedKeys, acct>>

AcctBreak == /\ acct' = FALSE
             /\ insertedKeys' = {}
             /\ erasedKeys' = {}

AcctInsert(key) ==
  IF acct /\ key \notin insertedKeys
    THEN /\ insertedKeys' = insertedKeys \cup {key}
         /\ UNCHANGED <<erasedKeys, acct>>
    ELSE AcctBreak

AcctErase(key) ==
  IF acct /\ key \in insertedKeys /\ key \notin erasedKeys
    THEN /\ erasedKeys' = erasedKeys \cup {key}
         /\ UNCHANGED <<insertedKeys, acct>>
    ELSE AcctBreak

\* x = map.at(key)
At(key) ==
  LET r == at(values, key) IN
  /\ UNCHANGED <<values, capacity, keyMutated>>
  /\ Called("at", key, NoValue, NoIndex, r.err, r.value, NoItem)
  /\ AcctKeep

\* map.at(key) = v
AtAssign(key, v) ==
  LET r == at(values, key) IN
  /\ values' = IF r.err = "none" THEN assign_second(values, r.ref, v)
                                 ELSE values
  /\ UNCHANGED <<capacity, keyMutated>>
  /\ Called("at_assign", key, v, NoIndex, r.err, r.value, NoItem)
  /\ AcctKeep

\* x = map[key]
Index(key) ==
  LET r == OpIndex(values, key) IN
  /\ Len(r.values) <= MaxLen
  /\ values' = r.values
  /\ capacity' \in IF Len(r.values) > Len(values)
                     THEN push_back_capacity(capacity, Len(values))
                     ELSE {capacity}
  /\ UNCHANGED keyMutated
  /\ Called("index", key, NoValue, NoIndex, "none",
            r.values[r.ref].second, NoItem)
  /\ AcctInsert(key)

\* map[key] = v
IndexAssign(key, v) ==
  LET r == OpIndex(values, key) IN
  /\ Len(r.values) <= MaxLen
  /\ values' = assign_second(r.values, r.ref, v)
  /\ capacity' \in IF Len(r.values) > Len(values)
                     THEN push_back_capacity(capacity, Len(values))
                     ELSE {capacity}
  /\ UNCHANGED keyMutated
  /\ Called("index_assign", key, v, NoIndex, "none",
            r.values[r.ref].second, NoItem)
  /\ AcctInsert(key)

\* item = map.at_index(index)
AtIndex(index) ==
  LET r == at_index(values, index) IN
  /\ UNCHANGED <<values, capacity, keyMutated>>
  /\ Called("at_index", "none", NoValue, index, r.err, NoValue, r.item)
  /\ AcctKeep

\* map.at_index(index).first = key
AtIndexSetKey(index, key) ==
  LET r == at_index(values, index) IN
  /\ UNCHANGED capacity
  /\ IF r.err = "none"
       THEN /\ values' = assign_first(values, r.ref, key)
            /\ keyMutated' = TRUE
            /\ AcctBreak
       ELSE /\ UNCHANGED <<values, keyMutated>>
            /\ AcctKeep
  /\ Called("set_key", key, NoValue, index, r.err, NoValue, r.item)

\* map.at_index(index).second = v
AtIndexSetValue(index, v) ==
  LET r == at_index(values, index) IN
  /\ values' = IF r.err = "none" THEN assign_second(values, r.ref, v)
                                 ELSE values
  /\ UNCHANGED <<capacity, keyMutated>>
  /\ Called("set_value", "none", v, index, r.err, NoValue, r.item)
  /\ AcctKeep

\* map.erase(key)
Erase(key) ==
  /\ values' = erase(values, key)
  /\ UNCHANGED <<capacity, keyMutated>>
  /\ Called("erase", key, NoValue, NoIndex, "none", NoValue, NoItem)
  /\ AcctErase(key)

\* map.clear()
Clear ==
  /\ values' = clear(values)
  /\ UNCHANGED <<capacity, keyMutated>>
  /\ Called("clear", "none", NoValue, NoIndex, "none", NoValue, NoItem)
  /\ AcctBreak

\* map.reserve(n)
Reserve(n) ==
  /\ capacity' = reserve(capacity, n)
  /\ UNCHANGED <<values, keyMutated>>
  /\ Called("reserve", "none", NoValue, n, "none", NoValue, NoItem)
  /\ AcctKeep

Next ==
  \/ \E k \in Keys : At(k)
  \/ \E k \in Keys, v \in Values : AtAssign(k, v)
  \/ \E k \in Keys : Index(k)
  \/ \E k \in Keys, v \in Values : IndexAssign(k, v)
  \/ \E i \in Indices : AtIndex(i)
  \/ \E i \in Indices, k \in Keys : AtIndexSetKey(i, k)
  \/ \E i \in Indices, v \in Values : AtIndexSetValue(i, v)
  \/ \E k \in Keys : Erase(k)
  \/ Clear
  \/ \E n \in Capacities : Reserve(n)

Spec == Init /\ [][Next]_vars

TypeOK ==
  /\ Len(values) <= MaxLen
  /\ Len(values) <= capacity
  /\ capacity <= MaxCap

\* ------------------------------------------------------------ properties

Count(vals, key) == Cardinality({i \in DOMAIN vals : vals[i].first = key})

CountBefore(vals, key, i) ==
  Cardinality({j \in 1..(i - 1) : vals[j].first = key})

Present(vals, key) == \E i \in DOMAIN vals : vals[i].first = key

\* C1: as long as no key was overwritten through at_index or an iterator,
\* every key is the key of at most one stored pair, whatever calls of
\* operator[], at, erase, clear and reserve were made.
C1_Uniqueness ==
  ~keyMutated => \A k \in Keys : Count(values, k) <= 1

C1_Witness ==
  /\ ~keyMutated
  /\ lastOp \in {"index", "index_assign"}
  /\ Present(pre, lastKey)
  /\ Len(values) >= 2

\* C2: after map[k] = v, at(k) does not throw and returns v, whether or not
\* k was present before.
C2_RoundTrip ==
  lastOp = "index_assign" =>
    /\ at(values, lastKey).err = "none"
    /\ at(values, lastKey).value = lastVal

C2_Witness ==
  /\ lastOp = "index_assign"
  /\ Present(pre, lastKey)
  /\ lookup(pre, lastKey) < Len(pre)
  /\ at(pre, lastKey).value # lastVal

\* C3: after erase(k), contains(k) is false, every other key that was
\* present is still present with the same value, and the other keys are
\* found in the same relative order as before.
C3_EraseCorrect ==
  lastOp = "erase" =>
    /\ ~contains(values, lastKey)
    /\ \A k2 \in Keys \ {lastKey} :
         contains(pre, k2) =>
           /\ contains(values, k2)
           /\ at(values, k2).value = at(pre, k2).value
    /\ \A k2, k3 \in Keys \ {lastKey} :
         (contains(pre, k2) /\ contains(pre, k3)
            /\ lookup(pre, k2) < lookup(pre, k3))
           => lookup(values, k2) < lookup(values, k3)

C3_Witness ==
  /\ lastOp = "erase"
  /\ lookup(pre, lastKey) = 1
  /\ Len(values) >= 2

\* C4: while every operator[] call so far inserted a new key and every
\* erase so far removed a key that was inserted and not erased before (and
\* nothing was cleared or re-keyed), size() is the number of insertions
\* minus the number of erasures.
C4_SizeAccounting ==
  acct => size(values) = Cardinality(insertedKeys) - Cardinality(erasedKeys)

C4_Witness ==
  /\ acct
  /\ erasedKeys # {}
  /\ lastOp \in {"index", "index_assign"}
  /\ size(values) >= 2

\* C5: at_index(i) throws exactly when i >= size(), also for i = 0 on an
\* empty map; a call that throws leaves the stored pairs unchanged, and a
\* call that does not throw returns the pair at position i.
C5_IndexBounds ==
  lastOp \in {"at_index", "set_key", "set_value"} =>
    /\ (lastErr = "out_of_range") <=> (lastIdx >= size(pre))
    /\ lastErr = "out_of_range" => values = pre
    /\ (lastOp = "at_index" /\ lastErr = "none") =>
         (values = pre /\ retItem = pre[lastIdx + 1])

C5_Witness ==
  /\ lastOp = "at_index"
  /\ lastErr = "out_of_range"
  /\ size(pre) >= 1
  /\ lastIdx = size(pre)

\* C6: at(k) throws exactly when no stored pair has key k, and then leaves
\* the stored pairs unchanged; when k is present the reading call returns
\* the value of the first pair with key k and changes nothing.
C6_AtFailFast ==
  lastOp \in {"at", "at_assign"} =>
    /\ (lastErr = "out_of_range") <=> ~Present(pre, lastKey)
    /\ lastErr = "out_of_range" => values = pre
    /\ lastOp = "at" => values = pre
    /\ lastErr = "none" =>
         \E i \in DOMAIN pre :
           /\ pre[i].first = lastKey
           /\ CountBefore(pre, lastKey, i) = 0
           /\ retValue = pre[i].second

C6_Witness ==
  /\ lastOp = "at"
  /\ lastErr = "out_of_range"
  /\ Len(pre) >= 1
  /\ values = pre

\* C7: operator[](k) never throws; with k present it returns the existing
\* value and leaves the pairs unchanged; with k absent it appends exactly
\* one pair (k, VALUE()) at the last index and every earlier pair keeps its
\* index, key and value.
C7_GetOrInsert ==
  lastOp = "index" =>
    /\ lastErr = "none"
    /\ Present(pre, lastKey) =>
         /\ values = pre
         /\ \E i \in DOMAIN pre :
              /\ pre[i].first = lastKey
              /\ CountBefore(pre, lastKey, i) = 0
              /\ retValue = pre[i].second
    /\ ~Present(pre, lastKey) =>
         /\ size(values) = size(pre) + 1
         /\ \A i \in DOMAIN pre : values[i] = pre[i]
         /\ values[Len(values)] = make_pair(lastKey, DefaultValue)
         /\ retValue = DefaultValue

C7_Witness ==
  /\ lastOp = "index"
  /\ ~Present(pre, lastKey)
  /\ Len(pre) >= 2

\* C8: after clear(), size() is 0 and empty() is true; a clear() right
\* after a clear() leaves the pairs as the first one left them.
C8_ClearIdempotent ==
  lastOp = "clear" =>
    /\ size(values) = 0
    /\ empty(values) # 0
    /\ preOp = "clear" => values = pre

C8_Witness ==
  /\ lastOp = "clear"
  /\ preOp = "clear"
  /\ capacity >= 2

\* C9: erase(k) with no stored pair of key k throws nothing and leaves the
\* pairs (keys, values, order) and size() as they were.
C9_EraseAbsent ==
  (lastOp = "erase" /\ ~Present(pre, lastKey)) =>
    /\ lastErr = "none"
    /\ values = pre
    /\ size(values) = size(pre)

C9_Witness ==
  /\ lastOp = "erase"
  /\ ~Present(pre, lastKey)
  /\ Len(pre) >= 2

\* C10: erase(k) removes every pair with key k, also when a key was
\* duplicated through at_index: no pair with key k is left, size() drops by
\* the number of pairs that had key k, and each other pair moves down by
\* the number of removed pairs that were in front of it.
C10_EraseAll ==
  lastOp = "erase" =>
    /\ ~contains(values, lastKey)
    /\ size(values) = size(pre) - Count(pre, lastKey)
    /\ \A i \in DOMAIN pre :
         pre[i].first # lastKey =>
           /\ (i - CountBefore(pre, lastKey, i)) \in DOMAIN values
           /\ values[i - CountBefore(pre, lastKey, i)] = pre[i]

C10_Witness ==
  /\ lastOp = "erase"
  /\ keyMutated
  /\ Count(pre, lastKey) >= 2
  /\ Len(values) >= 1

====
